---- MODULE Spec2Model ----
(***************************************************************************)
(* A model of the document-grounded chat service: the PDF ingestor         *)
(* (populate_database.py: chunk identifiers, incremental indexing, the      *)
(* update_chroma handler of app.py), the query pipeline (app.py:            *)
(* handle_submit_query) and the HTTP routes for the store's reset and the   *)
(* chats.                                                                   *)
(*                                                                          *)
(* Python strings are sequences of one-character strings, so formatting     *)
(* (f"{source}:{identifier}:{idx}") and parsing (str.split, re.split) are   *)
(* computed character by character.                                         *)
(***************************************************************************)
EXTENDS Integers, Sequences, FiniteSets, TLC

VARIABLES
    \* ---- the vector store (Chroma collection "chunks_pdf")
    store,              \* the ids held by the collection
    rejectsDuplicates,  \* whether the store refuses a batch that repeats an id
    \* ---- a direct caller of PDFChromaIngestor (SpecIndex)
    chunks,             \* the caller's chunk list: a sequence of metadata dicts
    runs,               \* calculate_chunk_ids runs over `chunks` so far
    firstIds,           \* the ids the first run attached
    calls,              \* consecutive add_to_chroma calls with `chunks`
    added,              \* chunks the last add_to_chroma call handed to the store
    storeBefore,        \* the store's ids when the last add_to_chroma call began
    \* ---- the data directory (data/*.pdf) and its loader
    files,              \* the candidate paths
    chunkCount,         \* per file, the chunks its text splits into
    corrupt,            \* the files UnstructuredPDFLoader cannot load
    \* ---- update_chroma handlers (SpecIngest), one per requesting client
    pc,                 \* where each handler stands
    new_paths,          \* its list of unindexed paths
    idx,                \* files it has been through
    docs,               \* the documents it has loaded (each named by its source)
    tchunks,            \* its chunk list after split_documents
    existing_ids,       \* the id listing its add_to_chroma call read
    events,             \* the events it emitted to its requester, in order
    started,            \* ingestion runs begun so far, over all tasks
    handed,             \* chunks its run handed to the store
    loadFailedAt,       \* the position in new_paths whose load raised, 0 if none
    afterComplete,      \* whether its run began after some run had completed
    everCompleted,      \* whether some run has emitted update_complete
    \* ---- the chat_message table (model.py) and the Socket.IO rooms
    messages,           \* the rows in insertion order; a row's id is its position
    writes,             \* per row, how often its content was written
    rooms,              \* per chat id, the subscribers that joined its room
    inbox,              \* per subscriber, the events received, in order
    \* ---- submit_query handlers (SpecQuery, SpecAnswer)
    active,             \* the handlers that run
    resultChoices,      \* per handler, the lists the similarity search may give
    qpc,                \* where each handler stands
    qchat,              \* its chat_id
    assistant_id,       \* the id of its placeholder row (assistant_msg.id)
    results,            \* its retrieval results
    prompt,             \* the blocks of its prompt
    response_text,      \* the tokens accumulated so far
    atStart,            \* the room's subscribers when start_stream went out
    atStream,           \* the room's subscribers when model.stream was called
    \* ---- the HTTP routes of app.py (SpecReset, SpecChats)
    resets,             \* the /reset_chroma requests answered so far
    current_chat,       \* session["current_chat"] of the browser session
    new_chat_id,        \* the id the last /new_chat request generated
    distinct_chats      \* the chat ids that request found persisted

idxVars == <<chunks, runs, firstIds, calls, added, storeBefore>>
dataVars == <<files, chunkCount, corrupt>>
ingVars == <<pc, new_paths, idx, docs, tchunks, existing_ids, events, started,
             handed, loadFailedAt, afterComplete, everCompleted>>
chatVars == <<messages, writes, rooms, inbox>>
qryVars == <<active, resultChoices, qpc, qchat, assistant_id, results, prompt,
             response_text, atStart, atStream>>
webVars == <<resets, current_chat, new_chat_id, distinct_chats>>
vars == <<store, rejectsDuplicates, idxVars, dataVars, ingVars, chatVars, qryVars,
          webVars>>

-----------------------------------------------------------------------------
(* Bounds *)

\* chunk lists of up to MaxLen chunks
MaxLen == 4
\* page numbers and start indexes 0..MaxKey
MaxKey == 1
\* a file splits into up to MaxChunks chunks
MaxChunks == 1
\* up to MaxRuns ingestion runs are begun in all
MaxRuns == 2
\* the model streams up to MaxTokens tokens per answer
MaxTokens == 2
\* a similarity search gives up to MaxResults results (at most k)
MaxResults == 2
\* up to MaxResets requests to /reset_chroma
MaxResets == 4
\* up to MaxPrior rows are persisted before a query
MaxPrior == 10

-----------------------------------------------------------------------------
(* Strings *)

Colon == <<":">>
Unknown == <<"u", "n", "k", "n", "o", "w", "n">>

DigitChars == <<"0", "1", "2", "3", "4", "5", "6", "7", "8", "9">>

\* str(n) of a non-negative int, as f"{n}" formats it
RECURSIVE Str(_)
Str(n) == IF n < 10 THEN <<DigitChars[n + 1]>>
          ELSE Str(n \div 10) \o <<DigitChars[(n % 10) + 1]>>

\* the index of the first c in s, 0 when there is none
RECURSIVE FindFrom(_, _, _)
FindFrom(s, c, i) == IF i > Len(s) THEN 0
                     ELSE IF s[i] = c THEN i
                     ELSE FindFrom(s, c, i + 1)

\* s.split(':', 1)[0]
SplitFirst(s) == LET i == FindFrom(s, ":", 1)
                 IN IF i = 0 THEN s ELSE SubSeq(s, 1, i - 1)

SeqToSet(s) == {s[i] : i \in 1..Len(s)}

\* all sequences over S of length 0..n
SeqsUpTo(S, n) == UNION {[1..k -> S] : k \in 0..n}

-----------------------------------------------------------------------------
(* Chunk metadata: a dict, modelled as a function on the keys it holds *)

NoKey == -1
NoSource == <<>>
EmptyDict == [k \in {} |-> 0]

Meta(source, page, start_index) ==
    (IF source = NoSource THEN EmptyDict ELSE [source |-> source])
    @@ (IF page = NoKey THEN EmptyDict ELSE [page |-> page])
    @@ (IF start_index = NoKey THEN EmptyDict ELSE [start_index |-> start_index])

\* chunk.metadata["id"] = chunk_id
SetId(md, chunk_id) ==
    [k \in DOMAIN md \cup {"id"} |-> IF k = "id" THEN chunk_id ELSE md[k]]

\* the metadata without its id, as the splitter produced it
DropId(md) == [k \in DOMAIN md \ {"id"} |-> md[k]]

-----------------------------------------------------------------------------
(* PDFChromaIngestor.calculate_chunk_ids *)

\* a previous run's id leaks into the identifier
CurrentIdentifierStale(md) ==
    IF "id" \in DOMAIN md THEN md.id
    ELSE (IF "source" \in DOMAIN md THEN md.source ELSE Unknown) \o Colon
         \o (IF "page" \in DOMAIN md THEN Str(md.page)
             ELSE IF "start_index" \in DOMAIN md THEN Str(md.start_index)
             ELSE Unknown)

\* f"{source}:{identifier}"
CurrentIdentifier(md) ==
    LET source == IF "source" \in DOMAIN md THEN md.source ELSE Unknown
        identifier == IF "page" \in DOMAIN md THEN Str(md.page)
                      ELSE IF "start_index" \in DOMAIN md THEN Str(md.start_index)
                      ELSE Unknown
    IN source \o Colon \o identifier

\* the ordinal is never reset
NextIdxNoReset(current_identifier, last_identifier, current_idx) ==
    IF current_identifier = last_identifier THEN current_idx + 1 ELSE current_idx

\* current_idx += 1 on a repeated identifier, else current_idx = 0
NextIdx(current_identifier, last_identifier, current_idx) ==
    IF current_identifier = last_identifier THEN current_idx + 1 ELSE 0

\* the for loop from chunk i on; last_identifier None is the empty string here
\* (no identifier is empty: each holds a colon)
RECURSIVE CalcLoop(_, _, _, _)
CalcLoop(cs, i, last_identifier, current_idx) ==
    IF i > Len(cs) THEN cs
    ELSE LET current_identifier == CurrentIdentifier(cs[i])
             next_idx == NextIdx(current_identifier, last_identifier, current_idx)
             chunk_id == current_identifier \o Colon \o Str(next_idx)
         IN CalcLoop([cs EXCEPT ![i] = SetId(cs[i], chunk_id)],
                     i + 1, current_identifier, next_idx)

calculate_chunk_ids(cs) == CalcLoop(cs, 1, <<>>, 0)

\* [c.metadata["id"] for c in cs]
IdsOf(cs) == [i \in 1..Len(cs) |-> cs[i].id]

-----------------------------------------------------------------------------
(* PDFChromaIngestor.add_to_chroma *)

\* every chunk is taken as new
NewChunksUnfiltered(cs, listed_ids) == cs

\* [c for c in chunks if c.metadata["id"] not in existing_ids]
NewChunks(cs, listed_ids) ==
    SelectSeq(cs, LAMBDA c : c.id \notin listed_ids)

HasDuplicates(ids) == \E i, j \in 1..Len(ids) : i # j /\ ids[i] = ids[j]

\* self.db.add_documents(new_chunks, ids=ids): an upsert by id of the batch. A
\* batch that repeats an id is refused by a store that validates its batches
\* (the call raises and nothing is written) and collapsed by one that does not.
AddRaises(ids) == rejectsDuplicates /\ HasDuplicates(ids)

\* the store's ids after add_to_chroma(cs) began with `existing`
StoreAfterAdd(cs, existing) ==
    LET ids == IdsOf(NewChunks(calculate_chunk_ids(cs), existing))
    IN IF AddRaises(ids) THEN existing ELSE existing \cup SeqToSet(ids)

\* the chunks add_to_chroma(cs) hands to the store
AddedBy(cs, existing) ==
    LET ids == IdsOf(NewChunks(calculate_chunk_ids(cs), existing))
    IN IF AddRaises(ids) THEN 0 ELSE Len(ids)

-----------------------------------------------------------------------------
(* The parts of the state a specification does not exercise stay at rest *)

\* update_chroma is sent by NClients clients
NClients == 2
Clients == 1..NClients
\* the command-line run of populate_database.py (PDFChromaIngestor.run)
Cli == 0
Tasks == Clients \cup {Cli}

IndexAtRest ==
    /\ chunks = <<>>
    /\ runs = 0
    /\ firstIds = <<>>
    /\ calls = 0
    /\ added = 0
    /\ storeBefore = {}

DataAtRest ==
    /\ files = {}
    /\ chunkCount = <<>>
    /\ corrupt = {}

IngestAtRest ==
    /\ pc = [t \in Tasks |-> "idle"]
    /\ new_paths = [t \in Tasks |-> <<>>]
    /\ idx = [t \in Tasks |-> 0]
    /\ docs = [t \in Tasks |-> <<>>]
    /\ tchunks = [t \in Tasks |-> <<>>]
    /\ existing_ids = [t \in Tasks |-> {}]
    /\ events = [t \in Tasks |-> <<>>]
    /\ started = 0
    /\ handed = [t \in Tasks |-> 0]
    /\ loadFailedAt = [t \in Tasks |-> 0]
    /\ afterComplete = [t \in Tasks |-> FALSE]
    /\ everCompleted = FALSE

\* submit_query is handled by up to NQueries concurrent handlers
NQueries == 2
Queries == 1..NQueries
\* join_chat is sent by NSubscribers clients
NSubscribers == 1
Subscribers == 1..NSubscribers
\* the chat ids in use
Chats == {"chat_1", "chat_2"}

ChatAtRest ==
    /\ messages = <<>>
    /\ writes = <<>>
    /\ rooms = [c \in Chats |-> {}]
    /\ inbox = [s \in Subscribers |-> <<>>]

QueryAtRest ==
    /\ active = {}
    /\ resultChoices = [q \in Queries |-> {}]
    /\ qpc = [q \in Queries |-> "idle"]
    /\ qchat = [q \in Queries |-> ""]
    /\ assistant_id = [q \in Queries |-> 0]
    /\ results = [q \in Queries |-> <<>>]
    /\ prompt = [q \in Queries |-> <<>>]
    /\ response_text = [q \in Queries |-> <<>>]
    /\ atStart = [q \in Queries |-> {}]
    /\ atStream = [q \in Queries |-> {}]

\* no request to the HTTP routes yet; a session without current_chat reads
\* "chat_1"
WebAtRest ==
    /\ resets = <<>>
    /\ current_chat = "chat_1"
    /\ new_chat_id = ""
    /\ distinct_chats = {}

-----------------------------------------------------------------------------
(* SpecIndex: a caller holding one chunk list calls calculate_chunk_ids and  *)
(* add_to_chroma on it, while the store changes under it (other ingestions,  *)
(* resets).                                                                  *)

Sources == {<<"a">>, <<"b">>}
Keys == 0..MaxKey

\* the metadata shapes the loader and the splitter give: paginated or not,
\* with or without a start index or a source
ChunkKinds ==
    {Meta(<<"a">>, k, NoKey) : k \in Keys}
    \cup {Meta(<<"a">>, NoKey, 0), Meta(<<"b">>, 0, 1), Meta(NoSource, NoKey, NoKey)}

ChunkLists == SeqsUpTo(ChunkKinds, MaxLen)

\* chunk lists ingested by others
OtherLists == {<<Meta(<<"a">>, 0, NoKey)>>,
               <<Meta(<<"a">>, 0, NoKey), Meta(<<"a">>, 0, NoKey), Meta(<<"b">>, 0, 1)>>}

IndexInit ==
    /\ store = {}
    /\ rejectsDuplicates \in BOOLEAN
    /\ chunks \in ChunkLists
    /\ runs = 0
    /\ firstIds = <<>>
    /\ calls = 0
    /\ added = 0
    /\ storeBefore = {}
    /\ DataAtRest
    /\ IngestAtRest
    /\ ChatAtRest
    /\ QueryAtRest
    /\ WebAtRest

\* ingestor.calculate_chunk_ids(chunks)
CalculateChunkIds ==
    /\ runs < 2
    /\ chunks' = calculate_chunk_ids(chunks)
    /\ runs' = runs + 1
    /\ firstIds' = IF runs = 0 THEN IdsOf(chunks') ELSE firstIds
    /\ UNCHANGED <<store, rejectsDuplicates, calls, added, storeBefore>>
    /\ UNCHANGED <<dataVars, ingVars, chatVars, qryVars, webVars>>

\* ingestor.add_to_chroma(chunks)
AddToChroma ==
    /\ calls < 2
    /\ chunks' = calculate_chunk_ids(chunks)
    /\ runs' = IF runs < 2 THEN runs + 1 ELSE runs
    /\ firstIds' = IF runs = 0 THEN IdsOf(chunks') ELSE firstIds
    /\ storeBefore' = store
    /\ store' = StoreAfterAdd(chunks, store)
    /\ added' = AddedBy(chunks, store)
    /\ calls' = calls + 1
    /\ UNCHANGED rejectsDuplicates
    /\ UNCHANGED <<dataVars, ingVars, chatVars, qryVars, webVars>>

\* another ingestion adds its chunks
OtherAdd ==
    /\ \E cs \in OtherLists :
          /\ StoreAfterAdd(cs, store) # store
          /\ store' = StoreAfterAdd(cs, store)
    /\ calls' = 0
    /\ UNCHANGED <<rejectsDuplicates, chunks, runs, firstIds, added, storeBefore>>
    /\ UNCHANGED <<dataVars, ingVars, chatVars, qryVars, webVars>>

\* ingestor.reset_db()
ResetDb ==
    /\ store # {}
    /\ store' = {}
    /\ calls' = 0
    /\ UNCHANGED <<rejectsDuplicates, chunks, runs, firstIds, added, storeBefore>>
    /\ UNCHANGED <<dataVars, ingVars, chatVars, qryVars, webVars>>

IndexNext == CalculateChunkIds \/ AddToChroma \/ OtherAdd \/ ResetDb

SpecIndex == IndexInit /\ [][IndexNext]_vars

-----------------------------------------------------------------------------
(* The data directory, the loader and the splitter *)

\* the paths glob("data/*.pdf") may give, in the order it gives them; a letter
\* stands for a file name, and one name holds a colon
PathOrder == << <<"a">>, <<"a", ":", "b">>, <<"b">> >>
Paths == SeqToSet(PathOrder)

\* ingestor.data_paths
DataPaths == SelectSeq(PathOrder, LAMBDA p : p \in files)

chunk_size == 1800
chunk_overlap == 200

\* split_documents on the one document UnstructuredPDFLoader(path).load()
\* gives: its chunks carry the document's source and the start index of their
\* window (add_start_index=True); no page
ChunksOfFile(path) ==
    [i \in 1..chunkCount[path] |->
        Meta(path, NoKey, (i - 1) * (chunk_size - chunk_overlap))]

\* ingestor.split_documents(docs)
RECURSIVE split_documents(_)
split_documents(ds) ==
    IF ds = <<>> THEN <<>>
    ELSE ChunksOfFile(Head(ds)) \o split_documents(Tail(ds))

\* the listing is taken for the set of paths
get_indexed_pdf_paths_unsplit == store

\* ingestor.get_indexed_pdf_paths()
get_indexed_pdf_paths == {SplitFirst(id_str) : id_str \in store}

-----------------------------------------------------------------------------
(* handle_update_chroma_event, step by step; the handlers of different      *)
(* clients run in threads of their own and interleave                       *)

\* a progress count that starts at 0
LoadingProgressFromZero(current, total) ==
    [name |-> "loading_progress", current |-> current - 1, total |-> total]

\* an update_complete without the count
UpdateCompleteNone(n) == [name |-> "update_complete", added |-> 0]

LoadingProgress(current, total) ==
    [name |-> "loading_progress", current |-> current, total |-> total]
UpdateProgress == [name |-> "update_progress"]
UpdateComplete(n) == [name |-> "update_complete", added |-> n]

Emit(t, ev) == events' = [events EXCEPT ![t] = Append(@, ev)]

\* where the loop goes after the file at position i: the handler emits its
\* progress before each load, load_documents does not
AfterFile(t, i) == IF i = Len(new_paths[t]) THEN "split"
                   ELSE IF t = Cli THEN "load" ELSE "emit_loading"

\* the failing document is skipped
AfterLoadErrorSkip(t) == [pc |-> AfterFile(t, idx[t] + 1), idx |-> idx[t] + 1]

\* document_loader.load() raises: nothing catches it, the handler ends
AfterLoadError(t) == [pc |-> "failed", idx |-> idx[t]]

IngestInit ==
    /\ store = {}
    /\ rejectsDuplicates \in BOOLEAN
    /\ IndexAtRest
    /\ files \in SUBSET Paths
    /\ corrupt \in SUBSET files
    /\ chunkCount \in [files -> 0..MaxChunks]
    /\ \A p \in corrupt : chunkCount[p] = 0
    /\ IngestAtRest
    /\ ChatAtRest
    /\ QueryAtRest
    /\ WebAtRest

\* run(), lines 129 and 50-51: load_documents goes through every data path
RunStart ==
    /\ pc[Cli] \in {"idle", "done", "failed"}
    /\ started < MaxRuns
    /\ new_paths' = [new_paths EXCEPT ![Cli] = DataPaths]
    /\ pc' = [pc EXCEPT ![Cli] = IF DataPaths = <<>> THEN "split" ELSE "load"]
    /\ started' = started + 1
    /\ idx' = [idx EXCEPT ![Cli] = 0]
    /\ docs' = [docs EXCEPT ![Cli] = <<>>]
    /\ tchunks' = [tchunks EXCEPT ![Cli] = <<>>]
    /\ existing_ids' = [existing_ids EXCEPT ![Cli] = {}]
    /\ handed' = [handed EXCEPT ![Cli] = 0]
    /\ loadFailedAt' = [loadFailedAt EXCEPT ![Cli] = 0]
    /\ UNCHANGED <<store, rejectsDuplicates, events, afterComplete, everCompleted>>
    /\ UNCHANGED <<idxVars, dataVars, chatVars, qryVars, webVars>>

\* lines 126-133: the unindexed paths; with none, zero-work completion
Start(t) ==
    /\ pc[t] \in {"idle", "done", "failed"}
    /\ started < MaxRuns
    /\ LET seen_path == get_indexed_pdf_paths
           np == SelectSeq(DataPaths, LAMBDA p : p \notin seen_path)
       IN /\ new_paths' = [new_paths EXCEPT ![t] = np]
          /\ IF Len(np) = 0
             THEN /\ events' = [events EXCEPT ![t] = <<UpdateComplete(0)>>]
                  /\ pc' = [pc EXCEPT ![t] = "done"]
                  /\ everCompleted' = TRUE
             ELSE /\ events' = [events EXCEPT ![t] = <<>>]
                  /\ pc' = [pc EXCEPT ![t] = "emit_loading"]
                  /\ UNCHANGED everCompleted
    /\ started' = started + 1
    /\ idx' = [idx EXCEPT ![t] = 0]
    /\ docs' = [docs EXCEPT ![t] = <<>>]
    /\ tchunks' = [tchunks EXCEPT ![t] = <<>>]
    /\ existing_ids' = [existing_ids EXCEPT ![t] = {}]
    /\ handed' = [handed EXCEPT ![t] = 0]
    /\ loadFailedAt' = [loadFailedAt EXCEPT ![t] = 0]
    /\ afterComplete' = [afterComplete EXCEPT ![t] = everCompleted]
    /\ UNCHANGED <<store, rejectsDuplicates>>
    /\ UNCHANGED <<idxVars, dataVars, chatVars, qryVars, webVars>>

\* lines 137-143: emit('loading_progress', ...), socketio.sleep(0)
EmitLoading(t) ==
    /\ pc[t] = "emit_loading"
    /\ Emit(t, LoadingProgress(idx[t] + 1, Len(new_paths[t])))
    /\ pc' = [pc EXCEPT ![t] = "load"]
    /\ UNCHANGED <<store, rejectsDuplicates, new_paths, idx, docs, tchunks,
                   existing_ids, started, handed, loadFailedAt, afterComplete,
                   everCompleted>>
    /\ UNCHANGED <<idxVars, dataVars, chatVars, qryVars, webVars>>

\* lines 144-146 (the handler) and 52-54 (load_documents): load the file and
\* extend docs
Load(t) ==
    /\ pc[t] = "load"
    /\ LET path == new_paths[t][idx[t] + 1]
       IN IF path \in corrupt
          THEN /\ pc' = [pc EXCEPT ![t] = AfterLoadError(t).pc]
               /\ idx' = [idx EXCEPT ![t] = AfterLoadError(t).idx]
               /\ loadFailedAt' = [loadFailedAt EXCEPT ![t] = idx[t] + 1]
               /\ UNCHANGED docs
          ELSE /\ docs' = [docs EXCEPT ![t] = Append(@, path)]
               /\ idx' = [idx EXCEPT ![t] = @ + 1]
               /\ pc' = [pc EXCEPT ![t] = AfterFile(t, idx[t] + 1)]
               /\ UNCHANGED loadFailedAt
    /\ UNCHANGED <<store, rejectsDuplicates, new_paths, tchunks, existing_ids,
                   events, started, handed, afterComplete, everCompleted>>
    /\ UNCHANGED <<idxVars, dataVars, chatVars, qryVars, webVars>>

\* lines 148-151: split, emit('update_progress'), socketio.sleep(0); run(),
\* line 130: split
Split(t) ==
    /\ pc[t] = "split"
    /\ tchunks' = [tchunks EXCEPT ![t] = split_documents(docs[t])]
    /\ IF t = Cli THEN UNCHANGED events ELSE Emit(t, UpdateProgress)
    /\ pc' = [pc EXCEPT ![t] = "add_to_chroma"]
    /\ UNCHANGED <<store, rejectsDuplicates, new_paths, idx, docs, existing_ids,
                   started, handed, loadFailedAt, afterComplete, everCompleted>>
    /\ UNCHANGED <<idxVars, dataVars, chatVars, qryVars, webVars>>

\* add_to_chroma, lines 92-94: attach the ids, read the store's id listing
ReadExisting(t) ==
    /\ pc[t] = "add_to_chroma"
    /\ tchunks' = [tchunks EXCEPT ![t] = calculate_chunk_ids(@)]
    /\ existing_ids' = [existing_ids EXCEPT ![t] = store]
    /\ pc' = [pc EXCEPT ![t] = "add_documents"]
    /\ UNCHANGED <<store, rejectsDuplicates, new_paths, idx, docs, events,
                   started, handed, loadFailedAt, afterComplete, everCompleted>>
    /\ UNCHANGED <<idxVars, dataVars, chatVars, qryVars, webVars>>

\* a store that keeps only the last batch
UpsertReplace(t) ==
    /\ pc[t] = "add_documents"
    /\ store' = SeqToSet(IdsOf(NewChunks(tchunks[t], existing_ids[t])))
    /\ handed' = [handed EXCEPT ![t] = Len(NewChunks(tchunks[t], existing_ids[t]))]
    /\ pc' = [pc EXCEPT ![t] = "done"]
    /\ IF t = Cli
       THEN UNCHANGED <<events, everCompleted>>
       ELSE /\ Emit(t, UpdateComplete(Len(new_paths[t])))
            /\ everCompleted' = TRUE
    /\ UNCHANGED <<rejectsDuplicates, new_paths, idx, docs, tchunks,
                   existing_ids, started, loadFailedAt, afterComplete>>
    /\ UNCHANGED <<idxVars, dataVars, chatVars, qryVars, webVars>>

\* add_to_chroma, lines 97-103: upsert the new chunks; then the handler's
\* line 153
Upsert(t) ==
    /\ pc[t] = "add_documents"
    /\ LET new_chunks == NewChunks(tchunks[t], existing_ids[t])
           ids == IdsOf(new_chunks)
       IN IF AddRaises(ids)
          THEN /\ pc' = [pc EXCEPT ![t] = "failed"]
               /\ UNCHANGED <<store, handed, events, everCompleted>>
          ELSE /\ store' = store \cup SeqToSet(ids)
               /\ handed' = [handed EXCEPT ![t] = Len(new_chunks)]
               /\ pc' = [pc EXCEPT ![t] = "done"]
               /\ IF t = Cli
                  THEN UNCHANGED <<events, everCompleted>>
                  ELSE /\ Emit(t, UpdateComplete(Len(new_paths[t])))
                       /\ everCompleted' = TRUE
    /\ UNCHANGED <<rejectsDuplicates, new_paths, idx, docs, tchunks,
                   existing_ids, started, loadFailedAt, afterComplete>>
    /\ UNCHANGED <<idxVars, dataVars, chatVars, qryVars, webVars>>

IngestNext ==
    \/ RunStart
    \/ \E t \in Clients : Start(t)
    \/ \E t \in Clients : EmitLoading(t)
    \/ \E t \in Tasks : Load(t)
    \/ \E t \in Tasks : Split(t)
    \/ \E t \in Tasks : ReadExisting(t)
    \/ \E t \in Tasks : Upsert(t)

SpecIngest == IngestInit /\ [][IngestNext]_vars

-----------------------------------------------------------------------------
(* The query pipeline: the pieces of handle_submit_query *)

PlaceholderText == <<"Generating...">>
NoDocuments == <<"No relevant documents found.">>
Separator == <<"\n\n---\n\n">>
\* the scores are counted in tenths: the threshold 1.0 is 10
Threshold == 10
\* ....all()[-10:]
HistoryLimit == 10

\* a in b, for strings
IsSubstring(a, b) ==
    \E i \in 0..(Len(b) - Len(a)) : SubSeq(b, i + 1, i + Len(a)) = a

\* the index of the first backslash or colon of s from i on, 0 when none
RECURSIVE FindSep(_, _)
FindSep(s, i) == IF i > Len(s) THEN 0
                 ELSE IF s[i] \in {"\\", ":"} THEN i
                 ELSE FindSep(s, i + 1)

\* re.split(r'[\\:]', s)
RECURSIVE ReSplit(_)
ReSplit(s) == LET i == FindSep(s, 1)
              IN IF i = 0 THEN <<s>>
                 ELSE <<SubSeq(s, 1, i - 1)>> \o ReSplit(SubSeq(s, i + 1, Len(s)))

\* sep.join(parts)
RECURSIVE JoinSeq(_, _)
JoinSeq(parts, sep) ==
    IF parts = <<>> THEN <<>>
    ELSE IF Len(parts) = 1 THEN parts[1]
    ELSE parts[1] \o sep \o JoinSeq(Tail(parts), sep)

\* the results with score <= 1.0
PassingInclusive(res) == SelectSeq(res, LAMBDA r : r.score <= Threshold)

\* [... for doc, _score in results if _score < 1.0]
Passing(res) == SelectSeq(res, LAMBDA r : r.score < Threshold)

\* the join without the `or` default
DocsTextNoSentinel(res) ==
    JoinSeq([i \in 1..Len(Passing(res)) |-> Passing(res)[i].page_content], Separator)

\* line 226
DocsText(res) ==
    LET joined == JoinSeq([i \in 1..Len(Passing(res)) |->
                              Passing(res)[i].page_content], Separator)
    IN IF joined = <<>> THEN NoDocuments ELSE joined

\* line 244; every stored chunk carries its id in its metadata
SourcesOf(res) == [i \in 1..Len(Passing(res)) |-> Passing(res)[i].id]

\* split_string[-3] raises an IndexError on a list of two
SourcesRaise(sources) ==
    \E i \in 1..Len(sources) : sources[i] # <<>> /\ Len(ReSplit(sources[i])) = 2

\* lines 245-251
RECURSIVE FormatSources(_, _)
FormatSources(sources, formatted_sources) ==
    IF sources = <<>> THEN formatted_sources
    ELSE LET source == Head(sources)
             split_string == ReSplit(source)
         IN FormatSources(Tail(sources),
                IF /\ source # <<>>
                   /\ Len(split_string) > 2
                   /\ ~IsSubstring(split_string[Len(split_string) - 2],
                                   formatted_sources)
                THEN formatted_sources \o <<"<li>">>
                     \o split_string[Len(split_string) - 2] \o <<"</li>\n">>
                ELSE formatted_sources)

\* line 252
FormattedResponse(text, res) ==
    LET formatted_sources == FormatSources(SourcesOf(res), <<>>)
    IN IF formatted_sources # <<>>
       THEN text \o <<"\n\n<h4>Here my Sources:</h4>\n<ul>">> \o formatted_sources
            \o <<"</ul>">>
       ELSE text

\* the text is stored as it is
RenderRaw(text) == text

\* markdown2.markdown(text, ...): the text comes back inside block tags
Render(text) == IF text = <<>> THEN <<>> ELSE <<"<p>">> \o text \o <<"</p>\n">>

\* lines 252-253
ResponseHtml(text, res) == Render(FormattedResponse(text, res))

\* m.role.title()
Title(role) == IF role = "user" THEN "User" ELSE "Assistant"

\* seq[:n]
FirstN(seq, n) == IF Len(seq) <= n THEN seq ELSE SubSeq(seq, 1, n)

\* seq[-n:]
LastN(seq, n) == IF Len(seq) <= n THEN seq
                 ELSE SubSeq(seq, Len(seq) - n + 1, Len(seq))

\* the rows of every chat, the last ten
HistoryAllChats(c) == LastN(messages, HistoryLimit)

\* lines 228-231: the rows of the chat by timestamp, the last ten; a row's
\* timestamp is the time of its insert, so the rows are in timestamp order
History(c) ==
    LastN(SelectSeq(messages, LAMBDA m : m.chat_id = c), HistoryLimit)

\* line 233
HistoryText(history) ==
    JoinSeq([i \in 1..Len(history) |->
                <<Title(history[i].role), ": ">> \o history[i].content], <<"\n">>)

\* data['query'] of handler q
QueryText(q) == <<"Q">> \o Str(q)

StartStream(m) == [name |-> "start_stream", message_id |-> m]
StreamTokenEvent(token, m) ==
    [name |-> "stream_token", token |-> token, message_id |-> m]
FinalResponse(html, m) ==
    [name |-> "final_response", final_message |-> html, message_id |-> m]

\* an emit that overtakes the events sent before it
EmitRoomFront(c, ev) ==
    inbox' = [s \in Subscribers |->
                 IF s \in rooms[c] THEN <<ev>> \o inbox[s] ELSE inbox[s]]

\* emit(..., room=chat_id): to every subscriber that joined the room
EmitRoom(c, ev) ==
    inbox' = [s \in Subscribers |->
                 IF s \in rooms[c] THEN Append(inbox[s], ev) ELSE inbox[s]]

-----------------------------------------------------------------------------
(* What the similarity search may return *)

StoredDoc(text, path, start_index, ordinal) ==
    [page_content |-> <<text>>,
     id |-> path \o Colon \o Str(start_index) \o Colon \o Str(ordinal)]

\* chunks the ingestor stored: two of one file, one of another
StoredDocs ==
    {StoredDoc("text1", <<"a">>, 0, 0), StoredDoc("text2", <<"a">>, 0, 1),
     StoredDoc("text3", <<"b">>, 0, 0)}

\* in tenths: 0.5, 1.0, 1.5
Scores == {5, 10, 15}

Scored(d, sc) == [page_content |-> d.page_content, id |-> d.id, score |-> sc]

\* similarity_search_with_score(query, k) over the stored chunks D: distinct
\* chunks, nearest first
ResultListsOf(D) ==
    {res \in SeqsUpTo({Scored(d, sc) : d \in D, sc \in Scores}, MaxResults) :
        /\ \A i, j \in 1..Len(res) : i < j => res[i].score <= res[j].score
        /\ \A i, j \in 1..Len(res) : i # j => res[i].id # res[j].id}

ResultLists == ResultListsOf(StoredDocs)

\* chunks of two files, the name of one ending in the name of the other
\* ("my_report.pdf", "report.pdf")
NestedNameDocs ==
    {StoredDoc("text1", <<"a", "b">>, 0, 0), StoredDoc("text2", <<"b">>, 0, 0),
     StoredDoc("text3", <<"b">>, 0, 1)}

\* the first handler's search gives a chunk below the threshold and one at
\* it, the searches of the others a chunk above it
OneResultList(q) ==
    IF q = 1 THEN {<<Scored(StoredDoc("text1", <<"a">>, 0, 0), 5),
                     Scored(StoredDoc("text3", <<"b">>, 0, 0), 10)>>}
    ELSE {<<Scored(StoredDoc("text2", <<"a">>, 0, 1), 15)>>}

\* the tokens the model streams
Tokens == {"The", "Generating..."}

-----------------------------------------------------------------------------
(* handle_join_chat and handle_submit_query, step by step; the handlers run  *)
(* in threads of their own and interleave                                    *)

QueryInit ==
    /\ store = {}
    /\ rejectsDuplicates = TRUE
    /\ IndexAtRest
    /\ DataAtRest
    /\ IngestAtRest
    /\ ChatAtRest
    /\ WebAtRest
    /\ qpc = [q \in Queries |-> "idle"]
    /\ qchat = [q \in Queries |-> ""]
    /\ assistant_id = [q \in Queries |-> 0]
    /\ results = [q \in Queries |-> <<>>]
    /\ prompt = [q \in Queries |-> <<>>]
    /\ response_text = [q \in Queries |-> <<>>]
    /\ atStart = [q \in Queries |-> {}]
    /\ atStream = [q \in Queries |-> {}]

QueryUntouched ==
    UNCHANGED <<store, rejectsDuplicates, idxVars, dataVars, ingVars, active,
                resultChoices, webVars>>

\* lines 196-200
JoinChat(s, c) ==
    /\ s \notin rooms[c]
    /\ rooms' = [rooms EXCEPT ![c] = @ \cup {s}]
    /\ UNCHANGED <<messages, writes, inbox, qpc, qchat, assistant_id, results,
                   prompt, response_text, atStart, atStream>>
    /\ QueryUntouched

\* lines 204-213: the user message is saved
SubmitQuery(q, c) ==
    /\ q \in active
    /\ qpc[q] = "idle"
    /\ qchat' = [qchat EXCEPT ![q] = c]
    /\ messages' = Append(messages,
                          [chat_id |-> c, role |-> "user", content |-> QueryText(q)])
    /\ writes' = Append(writes, 1)
    /\ qpc' = [qpc EXCEPT ![q] = "user_saved"]
    /\ UNCHANGED <<rooms, inbox, assistant_id, results, prompt, response_text,
                   atStart, atStream>>
    /\ QueryUntouched

\* lines 216-221: the placeholder is saved and its id announced
SavePlaceholder(q) ==
    /\ qpc[q] = "user_saved"
    /\ messages' = Append(messages, [chat_id |-> qchat[q], role |-> "assistant",
                                     content |-> PlaceholderText])
    /\ writes' = Append(writes, 1)
    /\ assistant_id' = [assistant_id EXCEPT ![q] = Len(messages) + 1]
    /\ EmitRoom(qchat[q], StartStream(Len(messages) + 1))
    /\ atStart' = [atStart EXCEPT ![q] = rooms[qchat[q]]]
    /\ qpc' = [qpc EXCEPT ![q] = "announced"]
    /\ UNCHANGED <<rooms, qchat, results, prompt, response_text, atStream>>
    /\ QueryUntouched

\* lines 224-237: retrieval, history, prompt; then model.stream(prompt) is called
Prepare(q) ==
    /\ qpc[q] = "announced"
    /\ \E res \in resultChoices[q] :
          /\ results' = [results EXCEPT ![q] = res]
          /\ prompt' = [prompt EXCEPT ![q] =
                           [chat_history |-> HistoryText(History(qchat[q])),
                            context |-> DocsText(res),
                            question |-> QueryText(q)]]
    /\ atStream' = [atStream EXCEPT ![q] = rooms[qchat[q]]]
    /\ qpc' = [qpc EXCEPT ![q] = "streaming"]
    /\ UNCHANGED <<messages, writes, rooms, inbox, qchat, assistant_id,
                   response_text, atStart>>
    /\ QueryUntouched

\* lines 238-241: the model yields a token
StreamToken(q, token) ==
    /\ qpc[q] = "streaming"
    /\ Len(response_text[q]) < MaxTokens
    /\ response_text' = [response_text EXCEPT ![q] = Append(@, token)]
    /\ EmitRoom(qchat[q], StreamTokenEvent(token, assistant_id[q]))
    /\ UNCHANGED <<messages, writes, rooms, qpc, qchat, assistant_id, results,
                   prompt, atStart, atStream>>
    /\ QueryUntouched

\* a handler that saves the partial text when the model's stream raises
StreamFailSaves(q) ==
    /\ qpc[q] = "streaming"
    /\ qpc' = [qpc EXCEPT ![q] = "failed"]
    /\ messages' = [messages EXCEPT ![assistant_id[q]].content =
                        ResponseHtml(response_text[q], results[q])]
    /\ writes' = [writes EXCEPT ![assistant_id[q]] = @ + 1]
    /\ UNCHANGED <<rooms, inbox, qchat, assistant_id, results, prompt,
                   response_text, atStart, atStream>>
    /\ QueryUntouched

\* line 238: the model's stream raises; nothing catches it, the handler ends
StreamFail(q) ==
    /\ qpc[q] = "streaming"
    /\ qpc' = [qpc EXCEPT ![q] = "failed"]
    /\ UNCHANGED <<messages, writes, rooms, inbox, qchat, assistant_id, results,
                   prompt, response_text, atStart, atStream>>
    /\ QueryUntouched

\* lines 244-256: the stream has ended; the answer is rendered and saved
Finalize(q) ==
    /\ qpc[q] = "streaming"
    /\ IF SourcesRaise(SourcesOf(results[q]))
       THEN /\ qpc' = [qpc EXCEPT ![q] = "failed"]
            /\ UNCHANGED <<messages, writes>>
       ELSE /\ messages' = [messages EXCEPT ![assistant_id[q]].content =
                               ResponseHtml(response_text[q], results[q])]
            /\ writes' = [writes EXCEPT ![assistant_id[q]] = @ + 1]
            /\ qpc' = [qpc EXCEPT ![q] = "saved"]
    /\ UNCHANGED <<rooms, inbox, qchat, assistant_id, results, prompt,
                   response_text, atStart, atStream>>
    /\ QueryUntouched

\* line 259
EmitFinal(q) ==
    /\ qpc[q] = "saved"
    /\ EmitRoom(qchat[q], FinalResponse(ResponseHtml(response_text[q], results[q]),
                                        assistant_id[q]))
    /\ qpc' = [qpc EXCEPT ![q] = "complete"]
    /\ UNCHANGED <<messages, writes, rooms, qchat, assistant_id, results, prompt,
                   response_text, atStart, atStream>>
    /\ QueryUntouched

\* the chat ids are interchangeable: the first handler's is chat_1
ChatsOf(q) == IF q = 1 THEN {"chat_1"} ELSE Chats

HandlerNext ==
    \/ \E q \in Queries : \E c \in ChatsOf(q) : SubmitQuery(q, c)
    \/ \E q \in Queries : SavePlaceholder(q)
    \/ \E q \in Queries : Prepare(q)
    \/ \E q \in Queries, token \in Tokens : StreamToken(q, token)
    \/ \E q \in Queries : StreamFail(q)
    \/ \E q \in Queries : Finalize(q)
    \/ \E q \in Queries : EmitFinal(q)

QueryNext ==
    \/ \E s \in Subscribers, c \in Chats : JoinChat(s, c)
    \/ HandlerNext

\* concurrent queries, in one conversation or in two
ConcurrentInit ==
    /\ QueryInit
    /\ active = Queries
    /\ resultChoices = [q \in Queries |-> OneResultList(q)]

SpecQuery == ConcurrentInit /\ [][QueryNext]_vars

\* one query, over every retrieval result
AnswerInit ==
    /\ QueryInit
    /\ active = {1}
    /\ resultChoices = [q \in Queries |-> ResultLists]

SpecAnswer == AnswerInit /\ [][HandlerNext]_vars

\* one query, over the retrieval results of a store with nested file names
AttributionInit ==
    /\ QueryInit
    /\ active = {1}
    /\ resultChoices = [q \in Queries |-> ResultListsOf(NestedNameDocs)]

SpecAttribution == AttributionInit /\ [][HandlerNext]_vars

\* the rows of earlier exchanges: user and assistant rows in turn, each in
\* the chat `chats` gives it
PriorMessages(chats) ==
    [i \in 1..Len(chats) |->
        [chat_id |-> chats[i],
         role |-> IF i % 2 = 1 THEN "user" ELSE "assistant",
         content |-> <<"m">> \o Str(i)]]

\* one query, after up to MaxPrior rows of its chat and of another
HistoryInit ==
    /\ store = {}
    /\ rejectsDuplicates = TRUE
    /\ IndexAtRest
    /\ DataAtRest
    /\ IngestAtRest
    /\ WebAtRest
    /\ \E n \in 0..MaxPrior : \E chats \in [1..n -> Chats] :
          /\ messages = PriorMessages(chats)
          /\ writes = [i \in 1..n |-> IF i % 2 = 1 THEN 1 ELSE 2]
    /\ rooms = [c \in Chats |-> {}]
    /\ inbox = [s \in Subscribers |-> <<>>]
    /\ active = {1}
    /\ resultChoices = [q \in Queries |-> OneResultList(q)]
    /\ qpc = [q \in Queries |-> "idle"]
    /\ qchat = [q \in Queries |-> ""]
    /\ assistant_id = [q \in Queries |-> 0]
    /\ results = [q \in Queries |-> <<>>]
    /\ prompt = [q \in Queries |-> <<>>]
    /\ response_text = [q \in Queries |-> <<>>]
    /\ atStart = [q \in Queries |-> {}]
    /\ atStream = [q \in Queries |-> {}]

SpecHistory == HistoryInit /\ [][HandlerNext]_vars

-----------------------------------------------------------------------------
(* SpecReset: the /reset_chroma route over a store that other ingestions    *)
(* fill                                                                      *)

\* ingestor.reset_db() when self.db.reset_collection() raises or not: the
\* exception is caught and printed, nothing reaches the caller
reset_db(raises) ==
    [store |-> IF raises THEN store ELSE {}, raised |-> FALSE]

\* the JSON reset_chroma answers with
reset_chroma(raises) ==
    IF reset_db(raises).raised THEN [status |-> "error"]
    ELSE [status |-> "success"]

ResetInit ==
    /\ store \in {{}} \cup {SeqToSet(IdsOf(calculate_chunk_ids(cs))) : cs \in OtherLists}
    /\ rejectsDuplicates \in BOOLEAN
    /\ IndexAtRest
    /\ DataAtRest
    /\ IngestAtRest
    /\ ChatAtRest
    /\ QueryAtRest
    /\ WebAtRest

\* POST /reset_chroma; the store's reset fails or not
ResetChroma ==
    /\ Len(resets) < MaxResets
    /\ \E raises \in BOOLEAN :
          /\ store' = reset_db(raises).store
          /\ resets' = Append(resets, [failed |-> raises,
                                       status |-> reset_chroma(raises).status])
    /\ UNCHANGED <<rejectsDuplicates, idxVars, dataVars, ingVars, chatVars, qryVars,
                   current_chat, new_chat_id, distinct_chats>>

ResetNext == ResetChroma \/ OtherAdd

SpecReset == ResetInit /\ [][ResetNext]_vars

-----------------------------------------------------------------------------
(* SpecChats: the chat routes of one browser session, beside a query handler *)

\* the chat ids a /select_chat/<chat_id> request names
SelectIds == {"chat_1", "chat_2", "chat_3"}

WelcomeText == <<"Nouveau chat créé.">>

\* db.session.query(ChatMessage.chat_id).distinct().all()
DistinctChats == {messages[i].chat_id : i \in 1..Len(messages)}

\* f"chat_{len(distinct_chats) + 1}"
NewChatId(found) == "chat_" \o ToString(Cardinality(found) + 1)

\* no handler is between its first insert and its last statement
NoQueryRunning == \A q \in Queries : qpc[q] \in {"idle", "complete", "failed"}

RouteUntouched ==
    UNCHANGED <<store, rejectsDuplicates, idxVars, dataVars, ingVars, qryVars,
                rooms, inbox, resets>>

\* GET /new_chat
new_chat ==
    /\ distinct_chats' = DistinctChats
    /\ new_chat_id' = NewChatId(DistinctChats)
    /\ current_chat' = NewChatId(DistinctChats)
    /\ UNCHANGED <<messages, writes>>
    /\ RouteUntouched

\* GET /select_chat/<chat_id>
select_chat(chat_id) ==
    /\ IF chat_id \notin DistinctChats
       THEN /\ messages' = Append(messages, [chat_id |-> chat_id, role |-> "assistant",
                                             content |-> WelcomeText])
            /\ writes' = Append(writes, 1)
       ELSE UNCHANGED <<messages, writes>>
    /\ current_chat' = chat_id
    /\ UNCHANGED <<new_chat_id, distinct_chats>>
    /\ RouteUntouched

\* GET /clear: the rows of the current chat are deleted. A row's id is its
\* position, so the route is taken while no handler holds a row id.
clear_conversation ==
    /\ NoQueryRunning
    /\ LET kept == {i \in 1..Len(messages) : messages[i].chat_id # current_chat}
           Pick(seq) == SelectSeq([i \in 1..Len(seq) |-> <<i, seq[i]>>],
                                  LAMBDA pair : pair[1] \in kept)
       IN /\ messages' = [k \in 1..Cardinality(kept) |-> Pick(messages)[k][2]]
          /\ writes' = [k \in 1..Cardinality(kept) |-> Pick(writes)[k][2]]
    /\ UNCHANGED <<current_chat, new_chat_id, distinct_chats>>
    /\ RouteUntouched

ChatsNext ==
    \/ new_chat
    \/ \E chat_id \in SelectIds : select_chat(chat_id)
    \/ clear_conversation
    \/ HandlerNext

\* an empty table; one query
ChatsInit ==
    /\ QueryInit
    /\ active = {1}
    /\ resultChoices = [q \in Queries |-> OneResultList(q)]

SpecChats == ChatsInit /\ [][ChatsNext]_vars

-----------------------------------------------------------------------------
(* Claims about calculate_chunk_ids and add_to_chroma, under SpecIndex *)

\* C1: a second add_to_chroma call with the same chunk list, the store untouched
\* in between, hands zero chunks to the store and leaves its ids as the first
\* call left them.
C1_IdempotentIndexing ==
    calls = 2 => (added = 0 /\ store = storeBefore)

\* the second call has run on a list whose chunk only this caller ingests, and
\* the first call stored it
C1_Witness ==
    /\ calls = 2
    /\ \E i \in 1..Len(chunks) :
          "source" \notin DOMAIN chunks[i] /\ chunks[i].id \in store

\* C2: after calculate_chunk_ids no two chunks of the list hold the same id.
C2_UniqueIds ==
    runs >= 1 => ~HasDuplicates(IdsOf(chunks))

\* the source path and the position key of a chunk, as strings
SourcePath(md) == IF "source" \in DOMAIN md THEN md.source ELSE Unknown
PositionKey(md) == IF "page" \in DOMAIN md THEN Str(md.page)
                   ELSE IF "start_index" \in DOMAIN md THEN Str(md.start_index)
                   ELSE Unknown
SamePair(a, b) == SourcePath(a) = SourcePath(b) /\ PositionKey(a) = PositionKey(b)

\* the number of chunks immediately before chunk i that carry its pair
RunLength(cs, i) ==
    Cardinality({k \in 1..(i - 1) : \A j \in k..(i - 1) : SamePair(cs[j], cs[i])})

\* C3: each chunk's ordinal is the number of immediately preceding consecutive
\* chunks with its (sourcePath, positionKey), 0 after any other pair, and its id
\* is "sourcePath:positionKey:ordinal".
C3_OrdinalReset ==
    runs >= 1 =>
        \A i \in 1..Len(chunks) :
            chunks[i].id = SourcePath(chunks[i]) \o Colon \o PositionKey(chunks[i])
                           \o Colon \o Str(RunLength(chunks, i))

\* position keys [A,A,B,A] of one source got the ordinals [0,1,0,0]
C3_Witness ==
    /\ runs >= 1
    /\ Len(chunks) = 4
    /\ IdsOf(chunks) = << <<"a", ":", "0", ":", "0">>, <<"a", ":", "0", ":", "1">>,
                          <<"a", ":", "1", ":", "0">>, <<"a", ":", "0", ":", "0">> >>

\* C4: every run of calculate_chunk_ids over the caller's list attaches the ids
\* the first run attached, whatever the store holds by then and although the
\* chunks now carry the ids of the earlier run.
C4_Deterministic ==
    runs >= 1 => IdsOf(chunks) = firstIds

\* a second run over a list of several chunks, with a store that is no longer
\* empty
C4_Witness ==
    runs = 2 /\ Len(chunks) >= 3 /\ store # {} /\ calls = 0

-----------------------------------------------------------------------------
(* Claims about the ingestion runs, under SpecIngest *)

LastEvent(t) == events[t][Len(events[t])]
HasColon(path) == FindFrom(path, ":", 1) # 0

\* C9 as stated: an update_chroma run begun after a completed one finds no
\* unindexed path, reports update_complete with added 0 at once, loads no file
\* and adds no chunk.
C9_SecondRunZeroWork ==
    \A t \in Clients :
        afterComplete[t] =>
            /\ new_paths[t] = <<>>
            /\ pc[t] = "done"
            /\ events[t] = <<UpdateComplete(0)>>
            /\ docs[t] = <<>>
            /\ handed[t] = 0

\* C9 as amended: such a run hands no chunk to the store; the paths it still
\* finds unindexed are files that gave no chunk or whose name holds a colon;
\* with none it reports update_complete with added 0 at once and loads nothing,
\* otherwise it loads them again and completes with their number.
C9_SecondRunAddsNothing ==
    \A t \in Clients :
        afterComplete[t] =>
            /\ handed[t] = 0
            /\ \A i \in 1..Len(new_paths[t]) :
                  chunkCount[new_paths[t][i]] = 0 \/ HasColon(new_paths[t][i])
            /\ new_paths[t] = <<>> =>
                  /\ pc[t] = "done"
                  /\ events[t] = <<UpdateComplete(0)>>
                  /\ docs[t] = <<>>
            /\ (new_paths[t] # <<>> /\ pc[t] = "done") =>
                  /\ LastEvent(t) = UpdateComplete(Len(new_paths[t]))
                  /\ docs[t] = new_paths[t]

\* a run begun after a completed one, over files whose chunks are stored, has
\* ended with zero work
C9_Witness ==
    \E t \in Clients :
        /\ afterComplete[t]
        /\ pc[t] = "done"
        /\ new_paths[t] = <<>>
        /\ \E p \in files : chunkCount[p] > 0
        /\ store # {}

\* C10 as stated: a run in which a load failed, with loadable documents after
\* the failing one, goes on: it does not end at the failure, and once done it
\* has loaded every loadable unindexed document.
C10_LoadErrorSkipped ==
    \A t \in Tasks :
        (/\ loadFailedAt[t] # 0
         /\ \E i \in (loadFailedAt[t] + 1)..Len(new_paths[t]) :
                new_paths[t][i] \notin corrupt) =>
            /\ pc[t] # "failed"
            /\ pc[t] = "done" =>
                  \A i \in 1..Len(new_paths[t]) :
                      new_paths[t][i] \notin corrupt =>
                          new_paths[t][i] \in SeqToSet(docs[t])

\* C10 as amended: the run ends at the document whose load failed: the documents
\* after it are not loaded, nothing is split or handed to the store, and the
\* handler has emitted its loading_progress events up to that document and
\* nothing else.
C10_LoadErrorAborts ==
    \A t \in Tasks :
        loadFailedAt[t] # 0 =>
            /\ pc[t] = "failed"
            /\ idx[t] = loadFailedAt[t] - 1
            /\ docs[t] = SubSeq(new_paths[t], 1, loadFailedAt[t] - 1)
            /\ tchunks[t] = <<>>
            /\ handed[t] = 0
            /\ t \in Clients =>
                  events[t] = [i \in 1..loadFailedAt[t] |->
                                  LoadingProgress(i, Len(new_paths[t]))]

\* the second of three unindexed documents failed to load in a handler
C10_Witness ==
    \E t \in Clients :
        /\ loadFailedAt[t] = 2
        /\ Len(new_paths[t]) = 3
        /\ Len(docs[t]) = 1

\* the events of a complete run over total files, but for the count that
\* update_complete carries
EventShapes(total) ==
    [i \in 1..total |-> [name |-> "loading_progress", current |-> i, total |-> total]]
    \o <<[name |-> "update_progress"], [name |-> "update_complete"]>>

Shape(e) == IF e.name = "update_complete" THEN [name |-> e.name] ELSE e

\* the handlers in a run over one unindexed file or more
InRun == {t \in Clients : pc[t] # "idle" /\ new_paths[t] # <<>>}

C16_AddedIsChunkCount ==
    \A t \in Clients :
        pc[t] = "done" => LastEvent(t).added = handed[t]

\* C16 as amended: the update_complete event a run ends with carries the
\* number of unindexed files of the run; the call hands to the store the chunks
\* whose id is not in the listing it read.
C16_AddedIsFileCount ==
    \A t \in Clients :
        pc[t] = "done" =>
            /\ LastEvent(t) = [name |-> "update_complete",
                               added |-> Len(new_paths[t])]
            /\ handed[t] = Cardinality({i \in 1..Len(tchunks[t]) :
                                           tchunks[t][i].id \notin existing_ids[t]})

\* a run over more unindexed files than it handed chunks to the store is done
C16_Witness ==
    \E t \in Clients :
        /\ pc[t] = "done"
        /\ handed[t] >= 1
        /\ Len(new_paths[t]) > handed[t]

\* the ids one run over `paths` stores
SingleRun(paths) == SeqToSet(IdsOf(calculate_chunk_ids(split_documents(paths))))

\* C17: the store never holds an id that a single run over the data directory
\* would not store; it holds every id of a run that is done; and once two tasks
\* that both took every file as unindexed are done, it holds exactly the ids of
\* a single run.
C17_ConcurrentIngestion ==
    /\ store \subseteq SingleRun(DataPaths)
    /\ \A t \in Tasks : pc[t] = "done" => SingleRun(new_paths[t]) \subseteq store
    /\ \A t, u \in Tasks :
          (/\ t # u
           /\ pc[t] = "done"
           /\ pc[u] = "done"
           /\ new_paths[t] = DataPaths
           /\ new_paths[u] = DataPaths) => store = SingleRun(DataPaths)

\* two tasks that both read an empty listing have both handed over the same
\* chunks
C17_Witness ==
    \E t \in Clients, u \in Tasks :
        /\ t # u
        /\ pc[t] = "done"
        /\ pc[u] = "done"
        /\ existing_ids[t] = {}
        /\ existing_ids[u] = {}
        /\ handed[t] >= 1
        /\ handed[u] = handed[t]
        /\ store = SingleRun(DataPaths)

-----------------------------------------------------------------------------
(* Claims about handle_submit_query under concurrency, under SpecQuery *)

\* the events subscriber s received for message id m, in order of arrival
EventsFor(s, m) == SelectSeq(inbox[s], LAMBDA e : e.message_id = m)

\* the handlers past the announcement of their message id
Streamed == {q \in Queries : qpc[q] \in {"streaming", "saved", "complete", "failed"}}

\* what handler q has emitted so far: start_stream, a stream_token per token of
\* the model in the model's order, final_response once it is complete
Emitted(q) ==
    <<[name |-> "start_stream", message_id |-> assistant_id[q]]>>
    \o [i \in 1..Len(response_text[q]) |->
           [name |-> "stream_token", token |-> response_text[q][i],
            message_id |-> assistant_id[q]]]
    \o (IF qpc[q] = "complete"
        THEN <<[name |-> "final_response",
                final_message |-> messages[assistant_id[q]].content,
                message_id |-> assistant_id[q]]>>
        ELSE <<>>)

\* C5 as stated: a subscriber in the room when the model's stream is begun has
\* received, for the query's message id, start_stream, then the tokens in the
\* model's order, each once, then final_response, and nothing else.
C5_StreamingOrder ==
    \A q \in Streamed : \A s \in atStream[q] :
        EventsFor(s, assistant_id[q]) = Emitted(q)

\* C5 as amended: a subscriber in the room when start_stream is emitted has
\* received start_stream, then the tokens in the model's order, each once, then
\* final_response; one that joined after start_stream and before the model's
\* stream is begun has received the same events but for start_stream.
C5_StreamingOrderFromAnnouncement ==
    \A q \in Streamed :
        /\ atStart[q] \subseteq atStream[q]
        /\ \A s \in atStart[q] : EventsFor(s, assistant_id[q]) = Emitted(q)
        /\ \A s \in atStream[q] \ atStart[q] :
              EventsFor(s, assistant_id[q]) = Tail(Emitted(q))

\* two queries of one conversation are complete, each with two tokens, and a
\* subscriber there from the first announcement on received their events
\* interleaved
C5_Witness ==
    \E s \in Subscribers :
        /\ \A q \in {1, 2} :
              /\ qpc[q] = "complete"
              /\ Len(response_text[q]) = 2
              /\ s \in atStart[q]
        /\ qchat[1] = qchat[2]
        /\ \E i, j, k \in 1..Len(inbox[s]) :
              /\ i < j
              /\ j < k
              /\ inbox[s][i].message_id = inbox[s][k].message_id
              /\ inbox[s][i].message_id # inbox[s][j].message_id

\* C6: once final_response is emitted the assistant row holds the rendered
\* answer and not the placeholder, and it was written twice; until the answer
\* is saved the row holds the placeholder and was written once; no row is ever
\* written more than twice.
C6_PlaceholderReplaced ==
    /\ \A q \in Queries :
          /\ qpc[q] = "complete" =>
                /\ messages[assistant_id[q]].content =
                      ResponseHtml(response_text[q], results[q])
                /\ messages[assistant_id[q]].content # PlaceholderText
                /\ writes[assistant_id[q]] = 2
          /\ qpc[q] \in {"announced", "streaming", "failed"} =>
                /\ messages[assistant_id[q]].content = PlaceholderText
                /\ writes[assistant_id[q]] = 1
    /\ \A i \in 1..Len(writes) : writes[i] <= 2

\* two queries of one conversation are complete, and the model's whole answer
\* to one of them, which has no sources, was the placeholder's text
C6_Witness ==
    /\ qpc[1] = "complete"
    /\ qpc[2] = "complete"
    /\ qchat[1] = qchat[2]
    /\ response_text[2] = PlaceholderText
    /\ Passing(results[2]) = <<>>

\* the rows and the events of message id m
RowAndEvents(m) == <<messages[m], writes[m], [s \in Subscribers |-> EventsFor(s, m)]>>

\* C7: a handler whose model stream failed stays failed: its assistant row holds
\* the placeholder, written once; the subscribers that were in the room hold the
\* tokens emitted before the failure and no final_response; and from then on
\* neither the row nor the events of its message id change.
C7_StreamFailure ==
    /\ [](\A q \in Queries :
            qpc[q] = "failed" =>
                /\ messages[assistant_id[q]].content = PlaceholderText
                /\ writes[assistant_id[q]] = 1
                /\ \A s \in Subscribers :
                      \A i \in 1..Len(inbox[s]) :
                          inbox[s][i].message_id = assistant_id[q] =>
                              inbox[s][i].name # "final_response"
                /\ \A s \in atStream[q] :
                      SelectSeq(EventsFor(s, assistant_id[q]),
                                LAMBDA e : e.name = "stream_token")
                      = [i \in 1..Len(response_text[q]) |->
                            [name |-> "stream_token", token |-> response_text[q][i],
                             message_id |-> assistant_id[q]]])
    /\ [][\A q \in Queries :
            qpc[q] = "failed" =>
                /\ qpc'[q] = "failed"
                /\ RowAndEvents(assistant_id[q])' = RowAndEvents(assistant_id[q])]_vars

\* a stream failed after two tokens that a subscriber received, and the other
\* query of the conversation went on to completion
C7_Witness ==
    \E q, r \in Queries : \E s \in atStream[q] :
        /\ qpc[q] = "failed"
        /\ Len(response_text[q]) = 2
        /\ Len(EventsFor(s, assistant_id[q])) >= 2
        /\ qpc[r] = "complete"
        /\ qchat[r] = qchat[q]
        /\ assistant_id[r] > assistant_id[q]

-----------------------------------------------------------------------------
(* Claims about the answer to one query, under SpecAnswer *)

\* the source label <li>path</li> is in the saved answer
Shown(path, content) == IsSubstring(<<"<li>">> \o path \o <<"</li>\n">>, content)

\* C8: the context of the prompt holds the content of exactly the results with
\* a score below 1.0, and the saved answer shows the source of exactly those;
\* a result with a score of 1.0 or more gives neither.
C8_RelevanceFilter ==
    \A q \in Queries :
        /\ qpc[q] \in {"streaming", "saved", "complete", "failed"} =>
              /\ \A i \in 1..Len(results[q]) :
                    results[q][i].page_content[1] \in SeqToSet(prompt[q].context)
                        <=> results[q][i].score < Threshold
              /\ (\A i \in 1..Len(results[q]) : results[q][i].score >= Threshold)
                    => prompt[q].context = NoDocuments
        /\ qpc[q] \in {"saved", "complete"} =>
              \A path \in {<<"a">>, <<"b">>} :
                  Shown(path, messages[assistant_id[q]].content)
                      <=> \E i \in 1..Len(results[q]) :
                             /\ results[q][i].score < Threshold
                             /\ SplitFirst(results[q][i].id) = path

\* an answer is saved for a search that gave a chunk of one file below 1.0 and
\* a chunk of another at exactly 1.0
C8_Witness ==
    /\ qpc[1] = "complete"
    /\ Len(results[1]) = 2
    /\ results[1][1].score < Threshold
    /\ results[1][2].score = Threshold
    /\ SplitFirst(results[1][1].id) # SplitFirst(results[1][2].id)
    /\ Shown(SplitFirst(results[1][1].id), messages[assistant_id[1]].content)

\* the contents of the results with a score below 1.0, in retrieval order,
\* with the separator between them
RECURSIVE PassingContents(_, _)
PassingContents(res, first) ==
    IF res = <<>> THEN <<>>
    ELSE IF Head(res).score < Threshold
         THEN (IF first THEN <<>> ELSE <<"\n\n---\n\n">>)
              \o Head(res).page_content \o PassingContents(Tail(res), FALSE)
         ELSE PassingContents(Tail(res), first)

\* C14: the context block of a prompt is "No relevant documents found." exactly
\* when no result has a score below 1.0, and otherwise the contents of the
\* results below 1.0, in retrieval order, joined by the separator.
C14_NoContextSentinel ==
    \A q \in Queries :
        qpc[q] \in {"streaming", "saved", "complete", "failed"} =>
            LET none == \A i \in 1..Len(results[q]) : results[q][i].score >= Threshold
            IN /\ prompt[q].context = <<"No relevant documents found.">> <=> none
               /\ ~none => prompt[q].context = PassingContents(results[q], TRUE)

\* a prompt is built from two results, neither below 1.0 and one at exactly
\* 1.0, and its context is the sentinel
C14_Witness ==
    \E q \in Queries :
        /\ qpc[q] = "streaming"
        /\ Len(results[q]) = 2
        /\ results[q][1].score = Threshold
        /\ results[q][2].score > Threshold
        /\ prompt[q].context = <<"No relevant documents found.">>

-----------------------------------------------------------------------------
(* Claims about the /reset_chroma route, under SpecReset *)

\* C11: a /reset_chroma request during which the store's reset failed is
\* answered with status 'error'.
C11_ResetFailureSurfaced ==
    \A i \in 1..Len(resets) : resets[i].failed => resets[i].status = "error"

-----------------------------------------------------------------------------
(* Claims about the source list of an answer, under SpecAttribution *)

\* the path segment of the ids of the results with a score below 1.0, each
\* once, in the order first seen
RECURSIVE DistinctLabels(_, _)
DistinctLabels(res, seen) ==
    IF res = <<>> THEN <<>>
    ELSE LET label == SplitFirst(Head(res).id)
         IN IF Head(res).score < Threshold /\ label \notin seen
            THEN <<label>> \o DistinctLabels(Tail(res), seen \cup {label})
            ELSE DistinctLabels(Tail(res), seen)

RECURSIVE ListItems(_)
ListItems(labels) ==
    IF labels = <<>> THEN <<>>
    ELSE <<"<li>">> \o Head(labels) \o <<"</li>\n">> \o ListItems(Tail(labels))

\* C12: the saved answer ends with the list of the distinct source labels of
\* the passing results, each once, in first-seen order; with no passing result
\* it has no list.
C12_SourceAttribution ==
    \A q \in Queries :
        qpc[q] \in {"saved", "complete"} =>
            LET labels == DistinctLabels(results[q], {})
            IN messages[assistant_id[q]].content =
                  Render(IF labels = <<>> THEN response_text[q]
                         ELSE response_text[q]
                              \o <<"\n\n<h4>Here my Sources:</h4>\n<ul>">>
                              \o ListItems(labels) \o <<"</ul>">>)

-----------------------------------------------------------------------------
(* Claims about the history block of a prompt, under SpecHistory *)

\* the ids of the rows of chat c
Own(c) == {i \in 1..Len(messages) : messages[i].chat_id = c}

\* those with fewer than ten rows of the chat after them
Recent(c) == {i \in Own(c) : Cardinality({j \in Own(c) : j > i}) < 10}

RECURSIVE Ascending(_)
Ascending(S) ==
    IF S = {} THEN <<>>
    ELSE LET least == CHOOSE i \in S : \A j \in S : i <= j
         IN <<least>> \o Ascending(S \ {least})

\* "Role: content"
Line(m) == <<IF m.role = "user" THEN "User" ELSE "Assistant", ": ">> \o m.content

RECURSIVE Lines(_)
Lines(ids) ==
    IF ids = <<>> THEN <<>>
    ELSE IF Len(ids) = 1 THEN Line(messages[ids[1]])
    ELSE Line(messages[ids[1]]) \o <<"\n">> \o Lines(Tail(ids))

\* the handlers whose prompt is built and whose rows are as the prompt saw them
Prompted == {q \in Queries : qpc[q] \in {"streaming", "failed"}}

\* C13: the history block of a prompt is the rows of the query's chat that have
\* fewer than ten rows of that chat after them, oldest first, one line each; no
\* row of another chat is in it.
C13_BoundedHistory ==
    \A q \in Prompted :
        prompt[q].chat_history = Lines(Ascending(Recent(qchat[q])))

\* a prompt is built in a chat of more than ten rows, with a row of another
\* chat among the last ten of the table
C13_Witness ==
    \E q \in Prompted :
        /\ Cardinality(Own(qchat[q])) > 10
        /\ \E i \in 1..Len(messages) :
              /\ i > Len(messages) - 10
              /\ messages[i].chat_id # qchat[q]

\* the lines of a history block
LineCount(h) == IF h = <<>> THEN 0
                ELSE Cardinality({i \in 1..Len(h) : h[i] = "\n"}) + 1

\* C19: with one query in the conversation, the history block of its prompt
\* ends with the query's user line and the placeholder's line, and before them
\* holds the rows the chat had before the query, eight of them at most.
C19_HistoryEndsWithOwnRows ==
    \A q \in Prompted :
        LET h == prompt[q].chat_history
            tail == <<"User", ": ">> \o QueryText(q)
                    \o <<"\n", "Assistant", ": ", "Generating...">>
            before == Cardinality(Own(qchat[q])) - 2
        IN /\ Len(h) >= Len(tail)
           /\ SubSeq(h, Len(h) - Len(tail) + 1, Len(h)) = tail
           /\ LineCount(h) - 2 = IF before < 8 THEN before ELSE 8

\* a prompt is built in a chat that had nine rows or more before the query
C19_Witness ==
    \E q \in Prompted :
        /\ Cardinality(Own(qchat[q])) - 2 >= 9
        /\ LineCount(prompt[q].chat_history) = 10

-----------------------------------------------------------------------------
(* Claims about the chat routes, under SpecChats *)

\* C18: the id a /new_chat request generated is not among the chat ids that
\* had persisted rows when the request was handled.
C18_NewChatIsFresh ==
    new_chat_id # "" => new_chat_id \notin distinct_chats

====
